---- MODULE Spec2Model ----
(***************************************************************************)
(* Social Impact Tracker: the CompressionEngine of backend/compression.py  *)
(* (dictionary encoding of program names, delta encoding of beneficiary    *)
(* counts) as a state machine.                                             *)
(*                                                                         *)
(* A Python str is a sequence of one-character strings, so that            *)
(* startswith, split, int() and the f-string "CODE_{code}" are computed    *)
(* character by character.  Optional[int] is <<>> (None) or <<v>>.         *)
(* A dict is a function whose DOMAIN is the set of its keys.               *)
(***************************************************************************)
EXTENDS Integers, Sequences, FiniteSets, TLC

VARIABLES
    dictionary,              \* self.dictionary: name -> code
    reverse_dictionary,      \* self.reverse_dictionary: code -> name
    next_code,               \* self.next_code
    previous_beneficiaries,  \* self.previous_beneficiaries: name -> count
    op,                      \* the method called last ("init" before any call)
    args,                    \* its arguments
    ret,                     \* its return value
    exc,                     \* the exception it raised ("" when it returned)
    hist_first_code,         \* history: name -> code it held after its first dictionary_encode since the last clear
    hist_last_count,         \* history: name -> count of the most recent delta_encode since the last clear
    hist_dropped,            \* history: <<names, counts>> the call made last removed from dictionary and previous_beneficiaries
    thread,                  \* request threads on the global engine: thread -> its position and locals
    hist_deltas,             \* history: name -> <<count of its first delta_encode, sum of the deltas returned since>>
    db                       \* the programs table: the ProgramDB rows in query order, ids increasing

engine == <<dictionary, reverse_dictionary, next_code, previous_beneficiaries>>
call == <<op, args, ret, exc>>
hist == <<hist_first_code, hist_last_count>>
vars == <<dictionary, reverse_dictionary, next_code, previous_beneficiaries,
          op, args, ret, exc, hist_first_code, hist_last_count, hist_dropped,
          thread, hist_deltas, db>>

----------------------------------------------------------------------------
(* Bounds of the model.                                                    *)

\* names "CODE_1" .. "CODE_<MaxK>" are among the program names encoded
MaxK == 2
\* beneficiary counts range over 0 .. MaxCount
MaxCount == 2
\* request threads running at once on the global engine
NumThreads == 2

----------------------------------------------------------------------------
(* Python values.                                                          *)

None == <<>>
Some(v) == <<v>>

EmptyDict == [k \in {} |-> 0]

\* d[k] = v
DictSet(d, k, v) == [x \in (DOMAIN d) \cup {k} |-> IF x = k THEN v ELSE d[x]]

DigitChars == <<"0", "1", "2", "3", "4", "5", "6", "7", "8", "9">>

IsDigit(c) == \E i \in 1..10 : DigitChars[i] = c

DigitVal(c) == (CHOOSE i \in 1..10 : DigitChars[i] = c) - 1

\* str(n) of a non-negative int
RECURSIVE FormatNat(_)
FormatNat(n) ==
    IF n < 10 THEN <<DigitChars[n + 1]>>
    ELSE FormatNat(n \div 10) \o <<DigitChars[(n % 10) + 1]>>

\* str(n), as the f-string's {code} formats it
FormatInt(n) == IF n < 0 THEN <<"-">> \o FormatNat(-n) ELSE FormatNat(n)

CODE_ == <<"C", "O", "D", "E", "_">>

\* f"CODE_{code}"
CodeToken(code) == CODE_ \o FormatInt(code)

\* s.startswith(p)
StartsWith(s, p) == Len(s) >= Len(p) /\ SubSeq(s, 1, Len(p)) = p

\* s.split(c): every occurrence of c separates two (possibly empty) parts
RECURSIVE Split(_, _)
Split(s, c) ==
    IF \A i \in 1..Len(s) : s[i] # c THEN <<s>>
    ELSE LET i == CHOOSE j \in 1..Len(s) : s[j] = c /\ \A k \in 1..(j - 1) : s[k] # c
         IN  <<SubSeq(s, 1, i - 1)>> \o Split(SubSeq(s, i + 1, Len(s)), c)

\* s.strip() for the blank character
RECURSIVE Strip(_)
Strip(s) ==
    IF Len(s) > 0 /\ s[1] = " " THEN Strip(Tail(s))
    ELSE IF Len(s) > 0 /\ s[Len(s)] = " " THEN Strip(SubSeq(s, 1, Len(s) - 1))
    ELSE s

\* the value of a digit string with its "_" separators dropped
RECURSIVE DigitsValue(_, _)
DigitsValue(s, acc) ==
    IF Len(s) = 0 THEN acc
    ELSE IF s[1] = "_" THEN DigitsValue(Tail(s), acc)
    ELSE DigitsValue(Tail(s), 10 * acc + DigitVal(s[1]))

\* int(s): blanks stripped, an optional sign, then digits in which single
\* underscores may separate digits; anything else raises ValueError
ParseInt(s) ==
    LET t == Strip(s)
        signed == Len(t) > 0 /\ t[1] \in {"+", "-"}
        body == IF signed THEN Tail(t) ELSE t
        wellFormed ==
            /\ Len(body) > 0
            /\ IsDigit(body[1])
            /\ IsDigit(body[Len(body)])
            /\ \A i \in 1..Len(body) : IsDigit(body[i]) \/ body[i] = "_"
            /\ \A i \in 1..(Len(body) - 1) : ~(body[i] = "_" /\ body[i + 1] = "_")
    IN  IF ~wellFormed THEN [exc |-> "ValueError", val |-> 0]
        ELSE [exc |-> "",
              val |-> IF signed /\ t[1] = "-" THEN -DigitsValue(body, 0)
                      ELSE DigitsValue(body, 0)]

----------------------------------------------------------------------------
(* The engine as a value, and its methods as functions from the engine and *)
(* the arguments to the engine afterwards, the return value and the        *)
(* exception raised.                                                       *)

Self == [dictionary |-> dictionary,
         reverse_dictionary |-> reverse_dictionary,
         next_code |-> next_code,
         previous_beneficiaries |-> previous_beneficiaries]

\* CompressionEngine.__init__
NewEngine == [dictionary |-> EmptyDict,
              reverse_dictionary |-> EmptyDict,
              next_code |-> 1,
              previous_beneficiaries |-> EmptyDict]

Return(self, value) == [self |-> self, ret |-> value, exc |-> ""]
Raise(self, e) == [self |-> self, ret |-> None, exc |-> e]

\* dictionary_encode with the reverse entry written after the increment
dictionary_encode_reverse_late(self, text) ==
    IF Len(text) = 0 THEN Return(self, text)
    ELSE IF text \in DOMAIN self.dictionary
    THEN Return(self, CodeToken(self.dictionary[text]))
    ELSE Return([self EXCEPT
                    !.dictionary = DictSet(self.dictionary, text, self.next_code),
                    !.reverse_dictionary =
                        DictSet(self.reverse_dictionary, self.next_code + 1, text),
                    !.next_code = self.next_code + 1],
                text)

\* dictionary_encode answering a repeated name with the code assigned last
dictionary_encode_latest_code(self, text) ==
    IF Len(text) = 0 THEN Return(self, text)
    ELSE IF text \in DOMAIN self.dictionary
    THEN Return(self, CodeToken(self.next_code - 1))
    ELSE Return([self EXCEPT
                    !.dictionary = DictSet(self.dictionary, text, self.next_code),
                    !.reverse_dictionary =
                        DictSet(self.reverse_dictionary, self.next_code, text),
                    !.next_code = self.next_code + 1],
                text)

dictionary_encode(self, text) ==
    IF Len(text) = 0 THEN Return(self, text)
    ELSE IF text \in DOMAIN self.dictionary
    THEN Return(self, CodeToken(self.dictionary[text]))
    ELSE Return([self EXCEPT
                    !.dictionary = DictSet(self.dictionary, text, self.next_code),
                    !.reverse_dictionary =
                        DictSet(self.reverse_dictionary, self.next_code, text),
                    !.next_code = self.next_code + 1],
                text)

\* the exceptions the except clause of dictionary_decode catches
DecodeCaught == {"ValueError", "IndexError"}

\* the body of the try block: int(encoded.split("_")[1]) and the lookup
DecodeTry(self, encoded) ==
    LET parts == Split(encoded, "_")
    IN  IF Len(parts) < 2 THEN [exc |-> "IndexError", found |-> FALSE, val |-> encoded]
        ELSE LET code == ParseInt(parts[2])
             IN  IF code.exc # ""
                 THEN [exc |-> code.exc, found |-> FALSE, val |-> encoded]
                 ELSE IF code.val \in DOMAIN self.reverse_dictionary
                 THEN [exc |-> "", found |-> TRUE, val |-> self.reverse_dictionary[code.val]]
                 ELSE [exc |-> "", found |-> FALSE, val |-> encoded]

\* dictionary_decode taking a registered name for literal text before it
\* looks for a code
dictionary_decode_literal_first(self, encoded) ==
    IF Len(encoded) = 0 THEN Return(self, encoded)
    ELSE IF encoded \in DOMAIN self.dictionary THEN Return(self, encoded)
    ELSE IF StartsWith(encoded, CODE_)
    THEN LET t == DecodeTry(self, encoded)
         IN  IF t.exc # "" /\ t.exc \notin DecodeCaught THEN Raise(self, t.exc)
             ELSE IF t.exc = "" /\ t.found THEN Return(self, t.val)
             ELSE Return(self, encoded)
    ELSE Return(self, encoded)

dictionary_decode(self, encoded) ==
    IF Len(encoded) = 0 THEN Return(self, encoded)
    ELSE IF StartsWith(encoded, CODE_)
    THEN LET t == DecodeTry(self, encoded)
         IN  IF t.exc # "" /\ t.exc \notin DecodeCaught THEN Raise(self, t.exc)
             ELSE IF t.exc = "" /\ t.found THEN Return(self, t.val)
             ELSE Return(self, encoded)
    ELSE Return(self, encoded)

\* delta_encode that records only the baseline
delta_encode_keeps_baseline(self, program_name, current_beneficiaries) ==
    IF program_name \notin DOMAIN self.previous_beneficiaries
    THEN Return([self EXCEPT !.previous_beneficiaries =
                     DictSet(self.previous_beneficiaries, program_name,
                             current_beneficiaries)],
                <<None, current_beneficiaries>>)
    ELSE LET previous == self.previous_beneficiaries[program_name]
             delta == current_beneficiaries - previous
         IN  Return(self, <<Some(delta), current_beneficiaries>>)

delta_encode(self, program_name, current_beneficiaries) ==
    IF program_name \notin DOMAIN self.previous_beneficiaries
    THEN Return([self EXCEPT !.previous_beneficiaries =
                     DictSet(self.previous_beneficiaries, program_name,
                             current_beneficiaries)],
                <<None, current_beneficiaries>>)
    ELSE LET previous == self.previous_beneficiaries[program_name]
             delta == current_beneficiaries - previous
         IN  Return([self EXCEPT !.previous_beneficiaries =
                         DictSet(self.previous_beneficiaries, program_name,
                                 current_beneficiaries)],
                    <<Some(delta), current_beneficiaries>>)

\* delta_decode that stores the count it reconstructed
delta_decode_writes_back(self, program_name, delta, reference) ==
    IF delta = None THEN Return(self, reference)
    ELSE IF program_name \in DOMAIN self.previous_beneficiaries
    THEN LET count == self.previous_beneficiaries[program_name] + delta[1]
         IN  Return([self EXCEPT !.previous_beneficiaries =
                         DictSet(self.previous_beneficiaries, program_name, count)],
                    count)
    ELSE Return(self, reference)

\* delta_decode testing "if not delta" in place of "if delta is None"
delta_decode_falsy_delta(self, program_name, delta, reference) ==
    IF delta = None \/ delta[1] = 0 THEN Return(self, reference)
    ELSE IF program_name \in DOMAIN self.previous_beneficiaries
    THEN Return(self, self.previous_beneficiaries[program_name] + delta[1])
    ELSE Return(self, reference)

\* delta_decode adding the delta to the reference
delta_decode_from_reference(self, program_name, delta, reference) ==
    IF delta = None THEN Return(self, reference)
    ELSE IF program_name \in DOMAIN self.previous_beneficiaries
    THEN Return(self, reference + delta[1])
    ELSE Return(self, reference)

delta_decode(self, program_name, delta, reference) ==
    IF delta = None THEN Return(self, reference)
    ELSE IF program_name \in DOMAIN self.previous_beneficiaries
    THEN Return(self, self.previous_beneficiaries[program_name] + delta[1])
    ELSE Return(self, reference)

\* sum(len(text) for text in keys)
RECURSIVE SumLen(_)
SumLen(keys) ==
    IF keys = {} THEN 0
    ELSE LET k == CHOOSE x \in keys : TRUE IN Len(k) + SumLen(keys \ {k})

\* round(num / den, 2) of a non-negative ratio, in hundredths: Python rounds
\* the float to the nearest hundredth, an exact tie to the even one.  With
\* up to four names den is 8, 16, 24 or 32, where every tie is an odd
\* multiple of 1/8 and so an exact float.
RoundRatio2(num, den) ==
    LET q == (100 * num) \div den
        r == (100 * num) % den
    IN  IF 2 * r < den THEN q
        ELSE IF 2 * r > den THEN q + 1
        ELSE IF q % 2 = 0 THEN q ELSE q + 1

\* _calculate_compression_ratio cutting the ratio to 2 decimals instead of
\* rounding it
_calculate_compression_ratio_truncates(self) ==
    IF DOMAIN self.dictionary = {} THEN 100
    ELSE LET original_size == SumLen(DOMAIN self.dictionary)
             compressed_size == Cardinality(DOMAIN self.dictionary) * 8
         IN  IF compressed_size = 0 THEN 100
             ELSE (100 * original_size) \div compressed_size

\* _calculate_compression_ratio assuming 6 characters per code
_calculate_compression_ratio_six_per_code(self) ==
    IF DOMAIN self.dictionary = {} THEN 100
    ELSE LET original_size == SumLen(DOMAIN self.dictionary)
             compressed_size == Cardinality(DOMAIN self.dictionary) * 6
         IN  IF compressed_size = 0 THEN 100
             ELSE RoundRatio2(original_size, compressed_size)

\* compression_ratio, in hundredths
_calculate_compression_ratio(self) ==
    IF DOMAIN self.dictionary = {} THEN 100
    ELSE LET original_size == SumLen(DOMAIN self.dictionary)
             compressed_size == Cardinality(DOMAIN self.dictionary) * 8
         IN  IF compressed_size = 0 THEN 100
             ELSE RoundRatio2(original_size, compressed_size)

get_compression_stats(self) ==
    Return(self,
           [dictionary_entries |-> Cardinality(DOMAIN self.dictionary),
            programs_tracked |-> Cardinality(DOMAIN self.previous_beneficiaries),
            compression_ratio |-> _calculate_compression_ratio(self)])

\* clear without previous_beneficiaries.clear()
clear_keeps_counts(self) ==
    Return([self EXCEPT !.dictionary = EmptyDict,
                        !.reverse_dictionary = EmptyDict,
                        !.next_code = 1],
           None)

\* clear without the reset of next_code
clear_keeps_counter(self) ==
    Return([self EXCEPT !.dictionary = EmptyDict,
                        !.reverse_dictionary = EmptyDict,
                        !.previous_beneficiaries = EmptyDict],
           None)

clear(self) ==
    Return([self EXCEPT !.dictionary = EmptyDict,
                        !.reverse_dictionary = EmptyDict,
                        !.previous_beneficiaries = EmptyDict,
                        !.next_code = 1],
           None)

----------------------------------------------------------------------------
(* The inputs the calls are made with.                                     *)

NameA == <<"A">>
NameB == <<"B">>

\* program names passed to dictionary_encode: the empty name, a plain name,
\* and names that themselves read "CODE_<k>"
DictNames == {<<>>, NameA} \cup {CodeToken(k) : k \in 1..MaxK}

\* program names passed to delta_encode and delta_decode
ProgramNames == {NameA, NameB}

Counts == 0..MaxCount

Deltas == {None} \cup {Some(d) : d \in (-MaxCount)..MaxCount}

\* tokens passed to dictionary_decode: every name, every "CODE_<k>" up to an
\* unassigned k, and malformed tokens
Tokens ==
    DictNames
    \cup {CodeToken(k) : k \in 0..(MaxK + 2)}
    \cup {CODE_,
          CODE_ \o <<"x">>,
          CODE_ \o <<"1", "_", "x">>,
          CODE_ \o <<"1", "_", "2">>,
          CODE_ \o <<"_", "1">>,
          CODE_ \o <<"-", "1">>,
          <<"C", "O", "D", "E">>}

----------------------------------------------------------------------------
(* The state machine: one action per method call on one engine.            *)

Threads == 1..NumThreads

\* a request thread outside compress_program_data
IdleThread == [pc |-> "idle", program_name |-> <<>>, beneficiaries |-> 0,
               loaded |-> 0, compressed_name |-> <<>>, delta |-> None]

\* the engine, the request threads and the histories before any call
InitEngine ==
    /\ dictionary = NewEngine.dictionary
    /\ reverse_dictionary = NewEngine.reverse_dictionary
    /\ next_code = NewEngine.next_code
    /\ previous_beneficiaries = NewEngine.previous_beneficiaries
    /\ op = "init"
    /\ args = <<>>
    /\ ret = None
    /\ exc = ""
    /\ hist_first_code = EmptyDict
    /\ hist_last_count = EmptyDict
    /\ hist_dropped = <<0, 0>>
    /\ thread = [t \in Threads |-> IdleThread]
    /\ hist_deltas = EmptyDict

Init ==
    /\ InitEngine
    /\ db = <<>>

\* the engine after the call, and what the call gave back
Apply(r) ==
    /\ dictionary' = r.self.dictionary
    /\ reverse_dictionary' = r.self.reverse_dictionary
    /\ next_code' = r.self.next_code
    /\ previous_beneficiaries' = r.self.previous_beneficiaries
    /\ ret' = r.ret
    /\ exc' = r.exc
    /\ hist_dropped' =
           <<Cardinality((DOMAIN dictionary) \ (DOMAIN r.self.dictionary)),
             Cardinality((DOMAIN previous_beneficiaries)
                             \ (DOMAIN r.self.previous_beneficiaries))>>
    /\ UNCHANGED <<thread, hist_deltas, db>>

DictionaryEncode ==
    \E text \in DictNames :
        LET r == dictionary_encode(Self, text)
        IN  /\ Apply(r)
            /\ op' = "dictionary_encode"
            /\ args' = <<text>>
            /\ hist_first_code' =
                   IF Len(text) = 0 \/ text \in DOMAIN hist_first_code
                   THEN hist_first_code
                   ELSE DictSet(hist_first_code, text,
                                IF text \in DOMAIN r.self.dictionary
                                THEN r.self.dictionary[text] ELSE 0)
            /\ UNCHANGED hist_last_count

DictionaryDecode ==
    \E encoded \in Tokens :
        /\ Apply(dictionary_decode(Self, encoded))
        /\ op' = "dictionary_decode"
        /\ args' = <<encoded>>
        /\ UNCHANGED hist

DeltaEncode ==
    \E program_name \in ProgramNames, current_beneficiaries \in Counts :
        /\ Apply(delta_encode(Self, program_name, current_beneficiaries))
        /\ op' = "delta_encode"
        /\ args' = <<program_name, current_beneficiaries>>
        /\ hist_last_count' =
               DictSet(hist_last_count, program_name, current_beneficiaries)
        /\ UNCHANGED hist_first_code

DeltaDecode ==
    \E program_name \in ProgramNames, delta \in Deltas, reference \in Counts :
        /\ Apply(delta_decode(Self, program_name, delta, reference))
        /\ op' = "delta_decode"
        /\ args' = <<program_name, delta, reference>>
        /\ UNCHANGED hist

GetCompressionStats ==
    /\ Apply(get_compression_stats(Self))
    /\ op' = "get_compression_stats"
    /\ args' = <<>>
    /\ UNCHANGED hist

Clear ==
    /\ Apply(clear(Self))
    /\ op' = "clear"
    /\ args' = <<>>
    /\ hist_first_code' = EmptyDict
    /\ hist_last_count' = EmptyDict

Next ==
    \/ DictionaryEncode
    \/ DictionaryDecode
    \/ DeltaEncode
    \/ DeltaDecode
    \/ GetCompressionStats
    \/ Clear

Spec == Init /\ [][Next]_vars

----------------------------------------------------------------------------
(* The engine registering names of 1, 7, 8 and 9 characters, for the       *)
(* compression ratio, which compares the lengths of the names with 8       *)
(* characters per code.                                                    *)

Program == <<"P", "r", "o", "g", "r", "a", "m">>
ProgramA == Program \o <<"A">>
Program_A == Program \o <<" ", "A">>

LongNames == {NameA, Program, ProgramA, Program_A}

EncodeLongName ==
    \E text \in LongNames :
        LET r == dictionary_encode(Self, text)
        IN  /\ Apply(r)
            /\ op' = "dictionary_encode"
            /\ args' = <<text>>
            /\ hist_first_code' =
                   IF text \in DOMAIN hist_first_code
                   THEN hist_first_code
                   ELSE DictSet(hist_first_code, text, r.self.dictionary[text])
            /\ UNCHANGED hist_last_count

NextRatio ==
    \/ EncodeLongName
    \/ GetCompressionStats

SpecRatio == Init /\ [][NextRatio]_vars

----------------------------------------------------------------------------
(* The engine with the series of counts of each program recorded:          *)
(* hist_deltas[name] = <<c0, d0, s>>, where c0 and d0 are the count passed  *)
(* to and the delta returned by the first delta_encode for the name, and s  *)
(* is the sum of the deltas returned by the later ones.  There is no clear. *)

DeltaEncodeSeries ==
    \E program_name \in ProgramNames, current_beneficiaries \in Counts :
        LET r == delta_encode(Self, program_name, current_beneficiaries)
            delta == r.ret[1]
        IN  /\ dictionary' = r.self.dictionary
            /\ reverse_dictionary' = r.self.reverse_dictionary
            /\ next_code' = r.self.next_code
            /\ previous_beneficiaries' = r.self.previous_beneficiaries
            /\ ret' = r.ret
            /\ exc' = r.exc
            /\ op' = "delta_encode"
            /\ args' = <<program_name, current_beneficiaries>>
            /\ hist_last_count' =
                   DictSet(hist_last_count, program_name, current_beneficiaries)
            /\ hist_deltas' =
                   IF program_name \notin DOMAIN hist_deltas
                   THEN DictSet(hist_deltas, program_name,
                                <<current_beneficiaries, delta, 0>>)
                   ELSE DictSet(hist_deltas, program_name,
                                <<hist_deltas[program_name][1],
                                  hist_deltas[program_name][2],
                                  hist_deltas[program_name][3]
                                      + (IF delta = None THEN 0 ELSE delta[1])>>)
            /\ UNCHANGED <<hist_first_code, hist_dropped, thread, db>>

NextDeltas ==
    \/ DeltaEncodeSeries
    \/ DeltaDecode
    \/ DictionaryDecode

SpecDeltas == Init /\ [][NextDeltas]_vars

----------------------------------------------------------------------------
(* The module-level functions on the global compression_engine, called one *)
(* at a time.                                                              *)

compress_program_data(self, program_name, beneficiaries) ==
    LET e == dictionary_encode(self, program_name)
        d == delta_encode(e.self, program_name, beneficiaries)
    IN  Return(d.self, <<e.ret, d.ret[1]>>)

decompress_program_data(self, compressed_name, delta, reference_beneficiaries, program_name) ==
    LET n == dictionary_decode(self, compressed_name)
        b == delta_decode(n.self, program_name, delta, reference_beneficiaries)
    IN  IF n.exc # "" THEN Raise(n.self, n.exc)
        ELSE Return(b.self, <<n.ret, b.ret>>)

get_compression_efficiency(self) == get_compression_stats(self)

\* program names passed to compress_program_data
GlobalNames == {NameA, CodeToken(1)}

\* compressed names passed to decompress_program_data
CompressedNames == GlobalNames \cup {CodeToken(2)}

CompressProgramData ==
    \E program_name \in GlobalNames, beneficiaries \in Counts :
        LET r == compress_program_data(Self, program_name, beneficiaries)
        IN  /\ Apply(r)
            /\ op' = "compress_program_data"
            /\ args' = <<program_name, beneficiaries>>
            /\ hist_first_code' =
                   IF program_name \in DOMAIN hist_first_code
                   THEN hist_first_code
                   ELSE DictSet(hist_first_code, program_name,
                                IF program_name \in DOMAIN r.self.dictionary
                                THEN r.self.dictionary[program_name] ELSE 0)
            /\ hist_last_count' =
                   DictSet(hist_last_count, program_name, beneficiaries)

DecompressProgramData ==
    \E compressed_name \in CompressedNames, delta \in Deltas,
       reference_beneficiaries \in Counts, program_name \in GlobalNames :
        /\ Apply(decompress_program_data(Self, compressed_name, delta,
                                         reference_beneficiaries, program_name))
        /\ op' = "decompress_program_data"
        /\ args' = <<compressed_name, delta, reference_beneficiaries, program_name>>
        /\ UNCHANGED hist

GetCompressionEfficiency ==
    /\ Apply(get_compression_efficiency(Self))
    /\ op' = "get_compression_efficiency"
    /\ args' = <<>>
    /\ UNCHANGED hist

NextGlobal ==
    \/ CompressProgramData
    \/ DecompressProgramData
    \/ GetCompressionEfficiency

SpecGlobal == Init /\ [][NextGlobal]_vars

----------------------------------------------------------------------------
(* Request threads: the endpoints create_program and update_program are    *)
(* plain "def" handlers, which the server runs on worker threads, and each *)
(* calls compress_program_data on the one global compression_engine, which *)
(* takes no lock.  A thread runs the statements of dictionary_encode and   *)
(* delta_encode one at a time, and another thread may run between any two  *)
(* of them; "self.next_code += 1" is a load and a store.                   *)

\* program names of the concurrent requests
ThreadNames == {NameA, NameB}

\* positions inside dictionary_encode
EncodePcs == {"enc_check", "enc_lookup", "enc_write_dict", "enc_write_rev",
              "enc_load", "enc_store"}

\* positions inside delta_encode
DeltaPcs == {"delta_check", "delta_first", "delta_read", "delta_write"}

At(t, pc) == thread[t].pc = pc

\* thread t alone changes, to the record th; no sequential call is recorded
Goto(t, th) ==
    /\ thread' = [thread EXCEPT ![t] = th]
    /\ UNCHANGED <<call, hist, hist_dropped, hist_deltas, db>>

\* the request handler calls compress_program_data(program_name, beneficiaries)
ThreadCall(t) ==
    /\ At(t, "idle")
    /\ \E program_name \in ThreadNames, beneficiaries \in Counts :
           Goto(t, [IdleThread EXCEPT !.pc = "enc_check",
                                      !.program_name = program_name,
                                      !.beneficiaries = beneficiaries])
    /\ UNCHANGED engine

\* if not text: return text / if text in self.dictionary:
ThreadEncCheck(t) ==
    /\ At(t, "enc_check")
    /\ LET text == thread[t].program_name
       IN  IF Len(text) = 0
           THEN Goto(t, [thread[t] EXCEPT !.pc = "delta_check",
                                          !.compressed_name = text])
           ELSE IF text \in DOMAIN dictionary
           THEN Goto(t, [thread[t] EXCEPT !.pc = "enc_lookup"])
           ELSE Goto(t, [thread[t] EXCEPT !.pc = "enc_write_dict"])
    /\ UNCHANGED engine

\* code = self.dictionary[text]; return f"CODE_{code}"
ThreadEncLookup(t) ==
    /\ At(t, "enc_lookup")
    /\ Goto(t, [thread[t] EXCEPT
                   !.pc = "delta_check",
                   !.compressed_name = CodeToken(dictionary[thread[t].program_name])])
    /\ UNCHANGED engine

\* self.dictionary[text] = self.next_code
ThreadEncWriteDict(t) ==
    /\ At(t, "enc_write_dict")
    /\ dictionary' = DictSet(dictionary, thread[t].program_name, next_code)
    /\ Goto(t, [thread[t] EXCEPT !.pc = "enc_write_rev"])
    /\ UNCHANGED <<reverse_dictionary, next_code, previous_beneficiaries>>

\* self.reverse_dictionary[self.next_code] = text
ThreadEncWriteRev(t) ==
    /\ At(t, "enc_write_rev")
    /\ reverse_dictionary' =
           DictSet(reverse_dictionary, next_code, thread[t].program_name)
    /\ Goto(t, [thread[t] EXCEPT !.pc = "enc_load"])
    /\ UNCHANGED <<dictionary, next_code, previous_beneficiaries>>

\* code = self.next_code, and the load of self.next_code += 1
ThreadEncLoad(t) ==
    /\ At(t, "enc_load")
    /\ Goto(t, [thread[t] EXCEPT !.pc = "enc_store", !.loaded = next_code])
    /\ UNCHANGED engine

\* the store of self.next_code += 1; return text
ThreadEncStore(t) ==
    /\ At(t, "enc_store")
    /\ next_code' = thread[t].loaded + 1
    /\ Goto(t, [thread[t] EXCEPT !.pc = "delta_check",
                                 !.loaded = 0,
                                 !.compressed_name = thread[t].program_name])
    /\ UNCHANGED <<dictionary, reverse_dictionary, previous_beneficiaries>>

\* if program_name not in self.previous_beneficiaries:
ThreadDeltaCheck(t) ==
    /\ At(t, "delta_check")
    /\ IF thread[t].program_name \notin DOMAIN previous_beneficiaries
       THEN Goto(t, [thread[t] EXCEPT !.pc = "delta_first"])
       ELSE Goto(t, [thread[t] EXCEPT !.pc = "delta_read"])
    /\ UNCHANGED engine

\* self.previous_beneficiaries[program_name] = current_beneficiaries;
\* return None, current_beneficiaries; compress_program_data returns
ThreadDeltaFirst(t) ==
    /\ At(t, "delta_first")
    /\ previous_beneficiaries' =
           DictSet(previous_beneficiaries, thread[t].program_name,
                   thread[t].beneficiaries)
    /\ Goto(t, IdleThread)
    /\ UNCHANGED <<dictionary, reverse_dictionary, next_code>>

\* previous = self.previous_beneficiaries[program_name];
\* delta = current_beneficiaries - previous
ThreadDeltaRead(t) ==
    /\ At(t, "delta_read")
    /\ Goto(t, [thread[t] EXCEPT
                   !.pc = "delta_write",
                   !.delta = Some(thread[t].beneficiaries
                                    - previous_beneficiaries[thread[t].program_name])])
    /\ UNCHANGED engine

\* self.previous_beneficiaries[program_name] = current_beneficiaries;
\* return delta, current_beneficiaries; compress_program_data returns
ThreadDeltaWrite(t) ==
    /\ At(t, "delta_write")
    /\ previous_beneficiaries' =
           DictSet(previous_beneficiaries, thread[t].program_name,
                   thread[t].beneficiaries)
    /\ Goto(t, IdleThread)
    /\ UNCHANGED <<dictionary, reverse_dictionary, next_code>>

NextThreads ==
    \E t \in Threads :
        \/ ThreadCall(t)
        \/ ThreadEncCheck(t)
        \/ ThreadEncLookup(t)
        \/ ThreadEncWriteDict(t)
        \/ ThreadEncWriteRev(t)
        \/ ThreadEncLoad(t)
        \/ ThreadEncStore(t)
        \/ ThreadDeltaCheck(t)
        \/ ThreadDeltaFirst(t)
        \/ ThreadDeltaRead(t)
        \/ ThreadDeltaWrite(t)

SpecThreads == Init /\ [][NextThreads]_vars

----------------------------------------------------------------------------
(* Two request threads on the global engine, each calling                  *)
(* compress_program_data once, for a new name of its own.                  *)

OwnName(t) == IF t = 1 THEN NameA ELSE NameB

\* the request handler of thread t calls compress_program_data for its name,
\* which the engine has not seen
ThreadCallNewName(t) ==
    /\ t \in {1, 2}
    /\ At(t, "idle")
    /\ OwnName(t) \notin DOMAIN previous_beneficiaries
    /\ \E beneficiaries \in Counts :
           Goto(t, [IdleThread EXCEPT !.pc = "enc_check",
                                      !.program_name = OwnName(t),
                                      !.beneficiaries = beneficiaries])
    /\ UNCHANGED engine

NextTwoNames ==
    \E t \in Threads :
        \/ ThreadCallNewName(t)
        \/ ThreadEncCheck(t)
        \/ ThreadEncWriteDict(t)
        \/ ThreadEncWriteRev(t)
        \/ ThreadEncLoad(t)
        \/ ThreadEncStore(t)
        \/ ThreadDeltaCheck(t)
        \/ ThreadDeltaFirst(t)

SpecTwoNames == Init /\ [][NextTwoNames]_vars

----------------------------------------------------------------------------
(* MetricsCalculator of backend/analytics.py: static, pure functions.      *)
(* A Python float is modelled by the rational it stands for, a record      *)
(* [n, d] in lowest terms with d > 0, and the arithmetic is exact: the     *)
(* float results differ from these by rounding error far below the         *)
(* hundredth that calculate_composite_score rounds to.  A function returns *)
(* [ret, exc] as the methods of the engine do.                             *)

MaxGrid == 4
Far == 1000000

Abs(i) == IF i < 0 THEN -i ELSE i

RECURSIVE Gcd(_, _)
Gcd(a, b) == IF b = 0 THEN a ELSE Gcd(b, a % b)

\* the float n / d
Rat(n, d) ==
    LET g == Gcd(Abs(n), Abs(d))
        s == IF d < 0 THEN -1 ELSE 1
    IN  <<(s * n) \div g, (s * d) \div g>>

\* the float of an int literal
R(i) == <<i, 1>>

RAdd(a, b) == Rat(a[1] * b[2] + b[1] * a[2], a[2] * b[2])
RSub(a, b) == Rat(a[1] * b[2] - b[1] * a[2], a[2] * b[2])
RMul(a, b) == Rat(a[1] * b[1], a[2] * b[2])
RLe(a, b) == a[1] * b[2] <= b[1] * a[2]
RLt(a, b) == a[1] * b[2] < b[1] * a[2]
RMax(a, b) == IF RLt(a, b) THEN b ELSE a
RMin(a, b) == IF RLt(b, a) THEN b ELSE a

Value(v) == [ret |-> v, exc |-> ""]
Throw(e) == [ret |-> None, exc |-> e]

\* a / b, which raises on a zero divisor
TrueDiv(a, b) ==
    IF b[1] = 0 THEN Throw("ZeroDivisionError")
    ELSE Value(Rat(a[1] * b[2], a[2] * b[1]))

\* round(x, 2)
Round2(x) == Rat(RoundRatio2(x[1], x[2]), 100)

\* config.py
METRIC_WEIGHTS ==
    [outcome_improvement |-> Rat(40, 100),
     cost_efficiency |-> Rat(35, 100),
     growth_rate |-> Rat(25, 100)]

NORMALIZATION_RANGES ==
    [outcome_improvement |-> <<R(0), R(100)>>,
     cost_per_beneficiary |-> <<R(0), R(1000)>>,
     growth_rate |-> <<R(-1), R(2)>>]

\* normalize_value without the clamp to 0..100
normalize_value_unclamped(value, min_val, max_val) ==
    IF max_val = min_val THEN Value(R(50))
    ELSE LET quotient == TrueDiv(RSub(value, min_val), RSub(max_val, min_val))
         IN  IF quotient.exc # "" THEN quotient
             ELSE Value(RMul(quotient.ret, R(100)))

\* normalize_value without the test for equal bounds
normalize_value_no_guard(value, min_val, max_val) ==
    LET quotient == TrueDiv(RSub(value, min_val), RSub(max_val, min_val))
    IN  IF quotient.exc # "" THEN quotient
        ELSE LET normalized == RMul(quotient.ret, R(100))
             IN  Value(RMax(R(0), RMin(R(100), normalized)))

\* normalize_value measuring the distance from max_val instead of min_val
normalize_value_from_max(value, min_val, max_val) ==
    IF max_val = min_val THEN Value(R(50))
    ELSE LET quotient == TrueDiv(RSub(max_val, value), RSub(max_val, min_val))
         IN  IF quotient.exc # "" THEN quotient
             ELSE LET normalized == RMul(quotient.ret, R(100))
                  IN  Value(RMax(R(0), RMin(R(100), normalized)))

normalize_value(value, min_val, max_val) ==
    IF max_val = min_val THEN Value(R(50))
    ELSE LET quotient == TrueDiv(RSub(value, min_val), RSub(max_val, min_val))
         IN  IF quotient.exc # "" THEN quotient
             ELSE LET normalized == RMul(quotient.ret, R(100))
                  IN  Value(RMax(R(0), RMin(R(100), normalized)))

\* calculate_composite_score with the cost normalized without the clamp
calculate_composite_score_raw_cost(outcome_improvement, cost_per_beneficiary, growth_rate) ==
    LET outcome == normalize_value(outcome_improvement,
                       NORMALIZATION_RANGES.outcome_improvement[1],
                       NORMALIZATION_RANGES.outcome_improvement[2])
        cost == normalize_value_unclamped(cost_per_beneficiary,
                       NORMALIZATION_RANGES.cost_per_beneficiary[1],
                       NORMALIZATION_RANGES.cost_per_beneficiary[2])
        growth == IF growth_rate # None
                  THEN normalize_value(growth_rate[1],
                           NORMALIZATION_RANGES.growth_rate[1],
                           NORMALIZATION_RANGES.growth_rate[2])
                  ELSE Value(R(50))
        raised == {outcome.exc, cost.exc, growth.exc} \ {""}
    IN  IF raised # {} THEN Throw(CHOOSE e \in raised : TRUE)
        ELSE LET outcome_norm == outcome.ret
                 cost_norm == RSub(R(100), cost.ret)
                 growth_norm == growth.ret
                 composite ==
                     RAdd(RAdd(RMul(outcome_norm,
                                    METRIC_WEIGHTS.outcome_improvement),
                               RMul(cost_norm,
                                    METRIC_WEIGHTS.cost_efficiency)),
                          RMul(growth_norm, METRIC_WEIGHTS.growth_rate))
             IN  Value(Round2(composite))

\* calculate_composite_score without 100 - ... for the cost
calculate_composite_score_cost_not_inverted(outcome_improvement, cost_per_beneficiary, growth_rate) ==
    LET outcome == normalize_value(outcome_improvement,
                       NORMALIZATION_RANGES.outcome_improvement[1],
                       NORMALIZATION_RANGES.outcome_improvement[2])
        cost == normalize_value(cost_per_beneficiary,
                       NORMALIZATION_RANGES.cost_per_beneficiary[1],
                       NORMALIZATION_RANGES.cost_per_beneficiary[2])
        growth == IF growth_rate # None
                  THEN normalize_value(growth_rate[1],
                           NORMALIZATION_RANGES.growth_rate[1],
                           NORMALIZATION_RANGES.growth_rate[2])
                  ELSE Value(R(50))
        raised == {outcome.exc, cost.exc, growth.exc} \ {""}
    IN  IF raised # {} THEN Throw(CHOOSE e \in raised : TRUE)
        ELSE LET outcome_norm == outcome.ret
                 cost_norm == cost.ret
                 growth_norm == growth.ret
                 composite ==
                     RAdd(RAdd(RMul(outcome_norm,
                                    METRIC_WEIGHTS.outcome_improvement),
                               RMul(cost_norm,
                                    METRIC_WEIGHTS.cost_efficiency)),
                          RMul(growth_norm, METRIC_WEIGHTS.growth_rate))
             IN  Value(Round2(composite))

\* an exception of a normalize_value call propagates
calculate_composite_score(outcome_improvement, cost_per_beneficiary, growth_rate) ==
    LET outcome == normalize_value(outcome_improvement,
                       NORMALIZATION_RANGES.outcome_improvement[1],
                       NORMALIZATION_RANGES.outcome_improvement[2])
        cost == normalize_value(cost_per_beneficiary,
                       NORMALIZATION_RANGES.cost_per_beneficiary[1],
                       NORMALIZATION_RANGES.cost_per_beneficiary[2])
        growth == IF growth_rate # None
                  THEN normalize_value(growth_rate[1],
                           NORMALIZATION_RANGES.growth_rate[1],
                           NORMALIZATION_RANGES.growth_rate[2])
                  ELSE Value(R(50))
        raised == {outcome.exc, cost.exc, growth.exc} \ {""}
    IN  IF raised # {} THEN Throw(CHOOSE e \in raised : TRUE)
        ELSE LET outcome_norm == outcome.ret
                 cost_norm == RSub(R(100), cost.ret)
                 growth_norm == growth.ret
                 composite ==
                     RAdd(RAdd(RMul(outcome_norm,
                                    METRIC_WEIGHTS.outcome_improvement),
                               RMul(cost_norm,
                                    METRIC_WEIGHTS.cost_efficiency)),
                          RMul(growth_norm, METRIC_WEIGHTS.growth_rate))
             IN  Value(Round2(composite))

\* Inputs: values below, at, inside, at the end of and above the ranges,
\* and values far outside them.
NormValues == {R(k) : k \in -1 .. MaxGrid + 1} \cup {R(-Far), R(Far)}
NormBounds == {R(k) : k \in 0 .. MaxGrid}
OutcomeValues == {R(25 * k) : k \in -1 .. MaxGrid + 1} \cup {R(-Far), R(Far)}
CostValues == {R(250 * k) : k \in -1 .. MaxGrid + 1} \cup {R(-Far), R(Far)}
GrowthValues ==
    {None} \cup {Some(Rat(k - 3, 2)) : k \in 0 .. 2 * MaxGrid}
           \cup {Some(R(-Far)), Some(R(Far))}

CallStatic(name, a, r) ==
    /\ op' = name
    /\ args' = a
    /\ ret' = r.ret
    /\ exc' = r.exc
    /\ UNCHANGED <<engine, hist, hist_dropped, thread, hist_deltas, db>>

NormalizeValue ==
    \E value \in NormValues, min_val \in NormBounds, max_val \in NormBounds :
        CallStatic("normalize_value", <<value, min_val, max_val>>,
                   normalize_value(value, min_val, max_val))

CalculateCompositeScore ==
    \E outcome_improvement \in OutcomeValues,
       cost_per_beneficiary \in CostValues,
       growth_rate \in GrowthValues :
        CallStatic("calculate_composite_score",
                   <<outcome_improvement, cost_per_beneficiary, growth_rate>>,
                   calculate_composite_score(outcome_improvement,
                                             cost_per_beneficiary,
                                             growth_rate))

MaxBen == 3
Big == 30000

\* round(x, 4)
Round4(x) == Rat(RoundRatio2(100 * x[1], x[2]), 10000)

calculate_outcome_improvement(pre_score, post_score) ==
    LET improvement == RSub(post_score, pre_score)
    IN  Value(Round2(improvement))

\* calculate_cost_per_beneficiary testing beneficiaries == 0 only
calculate_cost_per_beneficiary_zero_only(cost, beneficiaries) ==
    IF beneficiaries = 0 THEN Value(R(0))
    ELSE LET cost_per == TrueDiv(cost, R(beneficiaries))
         IN  IF cost_per.exc # "" THEN cost_per
             ELSE Value(Round2(cost_per.ret))

calculate_cost_per_beneficiary(cost, beneficiaries) ==
    IF beneficiaries <= 0 THEN Value(R(0))
    ELSE LET cost_per == TrueDiv(cost, R(beneficiaries))
         IN  IF cost_per.exc # "" THEN cost_per
             ELSE Value(Round2(cost_per.ret))

\* calculate_growth_rate without the test previous_beneficiaries == 0
calculate_growth_rate_none_only(current, previous) ==
    IF previous = None THEN Value(None)
    ELSE LET growth == TrueDiv(R(current - previous[1]),
                               R(previous[1]))
         IN  IF growth.exc # "" THEN growth
             ELSE Value(Some(Round4(growth.ret)))

\* the Optional[float] result is None or Some(rational); previous stands
\* for the parameter previous_beneficiaries, current for
\* current_beneficiaries
calculate_growth_rate(current, previous) ==
    IF previous = None \/ previous = Some(0)
    THEN Value(None)
    ELSE LET growth == TrueDiv(R(current - previous[1]),
                               R(previous[1]))
         IN  IF growth.exc # "" THEN growth
             ELSE Value(Some(Round4(growth.ret)))

\* Inputs: negative, zero, small and large counts; costs from nothing to
\* thousands.
BenValues == (-1 .. MaxBen) \cup {Big, Big + 1}
PreviousValues == {None} \cup {Some(b) : b \in BenValues}
TotalCosts == {R(-1), R(0), R(1), R(100), R(10000)}

CalculateGrowthRate ==
    \E current \in BenValues, previous \in PreviousValues :
        CallStatic("calculate_growth_rate", <<current, previous>>,
                   calculate_growth_rate(current, previous))

CalculateCostPerBeneficiary ==
    \E cost \in TotalCosts, beneficiaries \in BenValues :
        CallStatic("calculate_cost_per_beneficiary", <<cost, beneficiaries>>,
                   calculate_cost_per_beneficiary(cost, beneficiaries))

\* A ProgramDB row and an ImpactMetrics object are tuples of their fields.
ProgramDB(id, program_name, beneficiaries, cost, pre_outcome_score, post_outcome_score) ==
    <<id, program_name, beneficiaries, cost, pre_outcome_score,
      post_outcome_score>>

ProgramIdOf(program) == program[1]
ProgramNameOf(program) == program[2]
BeneficiariesOf(program) == program[3]
CostOf(program) == program[4]
PreOutcomeScoreOf(program) == program[5]
PostOutcomeScoreOf(program) == program[6]

ImpactMetrics(program_id, program_name, outcome_improvement, cost_per_beneficiary, growth_rate, composite_impact_score) ==
    <<program_id, program_name, outcome_improvement, cost_per_beneficiary,
      growth_rate, composite_impact_score>>

MetricsProgramId(m) == m[1]
MetricsProgramName(m) == m[2]
OutcomeImprovementOf(m) == m[3]
CostPerBeneficiaryOf(m) == m[4]
GrowthRateOf(m) == m[5]
CompositeImpactScoreOf(m) == m[6]

\* the first exception among the results rs of calls made in this order
FirstRaised(rs) ==
    LET raising == {i \in DOMAIN rs : rs[i].exc # ""}
    IN  IF raising = {} THEN ""
        ELSE rs[CHOOSE i \in raising : \A j \in raising : i <= j].exc

\* compute_program_metrics leaving out the growth rate
compute_program_metrics_no_growth(program, previous) ==
    LET outcome_improvement ==
            calculate_outcome_improvement(PreOutcomeScoreOf(program),
                                          PostOutcomeScoreOf(program))
        cost_per_beneficiary ==
            calculate_cost_per_beneficiary(CostOf(program),
                                           BeneficiariesOf(program))
        growth_rate == Value(None)
        composite_score ==
            calculate_composite_score(outcome_improvement.ret,
                                      cost_per_beneficiary.ret,
                                      growth_rate.ret)
        raised == FirstRaised(<<outcome_improvement, cost_per_beneficiary,
                                growth_rate, composite_score>>)
    IN  [program |-> program,
         ret |-> IF raised # "" THEN None
                 ELSE ImpactMetrics(ProgramIdOf(program),
                                    ProgramNameOf(program),
                                    outcome_improvement.ret,
                                    cost_per_beneficiary.ret,
                                    growth_rate.ret,
                                    composite_score.ret),
         exc |-> raised]

\* The result carries the program object as the call leaves it; previous
\* stands for the parameter previous_beneficiaries.
compute_program_metrics(program, previous) ==
    LET outcome_improvement ==
            calculate_outcome_improvement(PreOutcomeScoreOf(program),
                                          PostOutcomeScoreOf(program))
        cost_per_beneficiary ==
            calculate_cost_per_beneficiary(CostOf(program),
                                           BeneficiariesOf(program))
        growth_rate == calculate_growth_rate(BeneficiariesOf(program), previous)
        composite_score ==
            calculate_composite_score(outcome_improvement.ret,
                                      cost_per_beneficiary.ret,
                                      growth_rate.ret)
        raised == FirstRaised(<<outcome_improvement, cost_per_beneficiary,
                                growth_rate, composite_score>>)
    IN  [program |-> program,
         ret |-> IF raised # "" THEN None
                 ELSE ImpactMetrics(ProgramIdOf(program),
                                    ProgramNameOf(program),
                                    outcome_improvement.ret,
                                    cost_per_beneficiary.ret,
                                    growth_rate.ret,
                                    composite_score.ret),
         exc |-> raised]

\* Inputs: records of two names with no, some and more beneficiaries, with
\* scores that fall, rise, and rise by an amount with three decimals.
PreScores == {R(40), R(70)}
PostScores == {R(50), R(70), Rat(561, 8)}
ProgramRecords ==
    {ProgramDB(1, n, b, R(10000), pre, post) :
        n \in {NameA, NameB}, b \in {0, 100, 200},
        pre \in PreScores, post \in PostScores}
PreviousCounts == {None, Some(0), Some(100)}

ComputeProgramMetrics ==
    \E program \in ProgramRecords, previous \in PreviousCounts :
        CallStatic("compute_program_metrics", <<program, previous>>,
                   compute_program_metrics(program, previous))

NextMetrics ==
    \/ NormalizeValue
    \/ CalculateCompositeScore
    \/ CalculateGrowthRate
    \/ CalculateCostPerBeneficiary
    \/ ComputeProgramMetrics

SpecMetrics == Init /\ [][NextMetrics]_vars

----------------------------------------------------------------------------
(* AnalyticsEngine of backend/analytics.py: static methods that query the  *)
(* programs table and change nothing.  programs stands for the result of   *)
(* db.query(ProgramDB).all().                                              *)

MaxPrograms == 3

AnalyticsSummary(total_programs, total_beneficiaries, average_impact_score, total_cost, average_outcome_improvement) ==
    <<total_programs, total_beneficiaries, average_impact_score, total_cost,
      average_outcome_improvement>>

\* sum(...) of a list of floats
RECURSIVE SumRats(_)
SumRats(xs) ==
    IF xs = <<>> THEN R(0)
    ELSE RAdd(SumRats(SubSeq(xs, 1, Len(xs) - 1)), xs[Len(xs)])

\* sum(...) of a list of ints
RECURSIVE SumInts(_)
SumInts(xs) ==
    IF xs = <<>> THEN 0
    ELSE SumInts(SubSeq(xs, 1, Len(xs) - 1)) + xs[Len(xs)]

\* seq[:stop]
SliceTo(seq, stop) ==
    IF stop >= 0
    THEN SubSeq(seq, 1, IF stop < Len(seq) THEN stop ELSE Len(seq))
    ELSE SubSeq(seq, 1, IF Len(seq) + stop > 0 THEN Len(seq) + stop ELSE 0)

\* the loop "for program in programs: metrics_list.append(
\* compute_program_metrics(program))": the results of the calls, in order
RECURSIVE MetricsResults(_)
MetricsResults(programs) ==
    IF programs = <<>> THEN <<>>
    ELSE Append(MetricsResults(SubSeq(programs, 1, Len(programs) - 1)),
                compute_program_metrics(programs[Len(programs)], None))

RECURSIVE MetricsList(_)
MetricsList(results) ==
    IF results = <<>> THEN <<>>
    ELSE Append(MetricsList(SubSeq(results, 1, Len(results) - 1)),
                results[Len(results)].ret)

\* InsertByScore placing an entry before the entries of equal score
InsertByScoreBeforeEqual(ranked, m) ==
    LET k == Cardinality({i \in 1..Len(ranked) :
                 RLt(CompositeImpactScoreOf(m),
                     CompositeImpactScoreOf(ranked[i]))})
    IN  SubSeq(ranked, 1, k) \o <<m>> \o SubSeq(ranked, k + 1, Len(ranked))

\* one step of the stable sort: m goes behind every entry whose score is
\* not smaller
InsertByScore(ranked, m) ==
    LET k == Cardinality({i \in 1..Len(ranked) :
                 RLe(CompositeImpactScoreOf(m),
                     CompositeImpactScoreOf(ranked[i]))})
    IN  SubSeq(ranked, 1, k) \o <<m>> \o SubSeq(ranked, k + 1, Len(ranked))

\* sorted(metrics_list, key=lambda m: m.composite_impact_score, reverse=True)
RECURSIVE SortedByScore(_)
SortedByScore(metrics_list) ==
    IF metrics_list = <<>> THEN <<>>
    ELSE InsertByScore(
             SortedByScore(SubSeq(metrics_list, 1, Len(metrics_list) - 1)),
             metrics_list[Len(metrics_list)])

\* the function's result or the exception it raised
Outcome(r) == [ret |-> r.ret, exc |-> r.exc]

\* get_analytics_summary after its loop; results holds what the calls of
\* compute_program_metrics returned
SummaryOf(programs, results, metrics_list) ==
    LET total_beneficiaries ==
            SumInts([i \in 1..Len(programs) |-> BeneficiariesOf(programs[i])])
        total_cost ==
            SumRats([i \in 1..Len(programs) |-> CostOf(programs[i])])
        avg_impact_score ==
            TrueDiv(SumRats([i \in 1..Len(metrics_list) |->
                        CompositeImpactScoreOf(metrics_list[i])]),
                    R(Len(metrics_list)))
        avg_outcome_improvement ==
            TrueDiv(SumRats([i \in 1..Len(metrics_list) |->
                        OutcomeImprovementOf(metrics_list[i])]),
                    R(Len(metrics_list)))
    IN  IF FirstRaised(results) # "" THEN Throw(FirstRaised(results))
        ELSE Value(AnalyticsSummary(Len(programs),
                                    total_beneficiaries,
                                    Round2(avg_impact_score.ret),
                                    Round2(total_cost),
                                    Round2(avg_outcome_improvement.ret)))

SummaryAfterLoop(programs, results) ==
    SummaryOf(programs, results, MetricsList(results))

get_analytics_summary(programs) ==
    IF programs = <<>>
    THEN Value(AnalyticsSummary(0, 0, R(0), R(0), R(0)))
    ELSE SummaryAfterLoop(programs, MetricsResults(programs))

\* get_ranked_programs after its loop, cutting the list to limit before
\* sorting it
RankedOfCutFirst(results, limit) ==
    IF FirstRaised(results) # "" THEN Throw(FirstRaised(results))
    ELSE Value(SortedByScore(SliceTo(MetricsList(results), limit)))

\* get_ranked_programs after its loop; results holds what the calls of
\* compute_program_metrics returned
RankedOf(results, limit) ==
    IF FirstRaised(results) # "" THEN Throw(FirstRaised(results))
    ELSE Value(SliceTo(SortedByScore(MetricsList(results)), limit))

get_ranked_programs(programs, limit) ==
    RankedOf(MetricsResults(programs), limit)

\* the rows of the name of program with a smaller id, as places in programs
EarlierRows(programs, program) ==
    {i \in 1..Len(programs) :
         /\ ProgramNameOf(programs[i]) = ProgramNameOf(program)
         /\ ProgramIdOf(programs[i]) < ProgramIdOf(program)}

\* the first of the rows at the places earlier by id ascending
FirstByIdAsc(programs, earlier) ==
    IF earlier = {} THEN None
    ELSE Some(programs[CHOOSE i \in earlier : \A j \in earlier :
                  ProgramIdOf(programs[i]) <= ProgramIdOf(programs[j])])

\* .order_by(ProgramDB.id.desc()).first() of the rows at the places earlier
FirstByIdDesc(programs, earlier) ==
    IF earlier = {} THEN None
    ELSE Some(programs[CHOOSE i \in earlier : \A j \in earlier :
                  ProgramIdOf(programs[i]) >= ProgramIdOf(programs[j])])

\* previous_programs.beneficiaries if previous_programs else None
BeneficiariesOrNone(previous_programs) ==
    IF previous_programs # None
    THEN Some(BeneficiariesOf(previous_programs[1]))
    ELSE None

\* get_program_by_id_with_metrics once program is found
MetricsWithPrevious(programs, program) ==
    Outcome(compute_program_metrics(
                program,
                BeneficiariesOrNone(
                    FirstByIdDesc(programs, EarlierRows(programs, program)))))

\* .filter(ProgramDB.id == program_id).first() is None or a row
get_program_by_id_with_metrics(programs, program_id) ==
    LET found == {i \in 1..Len(programs) :
                      ProgramIdOf(programs[i]) = program_id}
    IN  IF found = {} THEN Value(None)
        ELSE MetricsWithPrevious(
                 programs,
                 programs[CHOOSE i \in found : \A j \in found : i <= j])

\* Inputs: the programs table holds up to MaxPrograms rows with distinct
\* primary keys: rows of one name with no, some and more beneficiaries and
\* rows of another name (rows of equal beneficiaries score the same).  db
\* lists the rows in the order in which a query without order_by returns
\* them, which need not be the order of the ids.  Limits and ids lie below,
\* inside and beyond the table.
RowKinds == {<<NameA, 0>>, <<NameA, 100>>, <<NameA, 200>>, <<NameB, 100>>}

RowIds(t) == {ProgramIdOf(t[i]) : i \in 1..Len(t)}

RECURSIVE TablesOfLen(_)
TablesOfLen(n) ==
    IF n = 0 THEN {<<>>}
    ELSE UNION {{Append(t, ProgramDB(id, kind[1], kind[2],
                                     R(10000), R(40), R(70))) :
                     id \in (1..MaxPrograms) \ RowIds(t), kind \in RowKinds} :
                t \in TablesOfLen(n - 1)}

Tables == UNION {TablesOfLen(n) : n \in 0..MaxPrograms}
Limits == -1 .. MaxPrograms + 1
ProgramIds == 0 .. MaxPrograms + 1

InitAnalytics ==
    /\ InitEngine
    /\ db \in Tables

\* One request is answered per behaviour: the methods only read the table,
\* so a further request would be answered from the same rows.
GetAnalyticsSummary ==
    /\ op = "init"
    /\ CallStatic("get_analytics_summary", <<>>, get_analytics_summary(db))

GetRankedPrograms ==
    /\ op = "init"
    /\ \E limit \in Limits :
           CallStatic("get_ranked_programs", <<limit>>,
                      get_ranked_programs(db, limit))

GetProgramByIdWithMetrics ==
    /\ op = "init"
    /\ \E program_id \in ProgramIds :
           CallStatic("get_program_by_id_with_metrics", <<program_id>>,
                      get_program_by_id_with_metrics(db, program_id))

NextAnalytics ==
    \/ GetAnalyticsSummary
    \/ GetRankedPrograms
    \/ GetProgramByIdWithMetrics

SpecAnalytics == InitAnalytics /\ [][NextAnalytics]_vars

----------------------------------------------------------------------------
(* Claims about the engine under sequential calls.                         *)

\* C1: in every state reachable by any sequential mix of the six methods,
\* dictionary and reverse_dictionary are mutual inverses: every registered
\* name n has reverse_dictionary[dictionary[n]] = n, and every code c of
\* reverse_dictionary has dictionary[reverse_dictionary[c]] = c.
C1_MutualInverses ==
    /\ \A n \in DOMAIN dictionary :
           /\ dictionary[n] \in DOMAIN reverse_dictionary
           /\ reverse_dictionary[dictionary[n]] = n
    /\ \A c \in DOMAIN reverse_dictionary :
           /\ reverse_dictionary[c] \in DOMAIN dictionary
           /\ dictionary[reverse_dictionary[c]] = c

\* a first-occurrence encode has just registered a second name
C1_Witness ==
    /\ op = "dictionary_encode"
    /\ Len(args[1]) > 0
    /\ ret = args[1]
    /\ Cardinality(DOMAIN dictionary) >= 2
    /\ Cardinality(DOMAIN reverse_dictionary) >= 2

\* C2: for a non-empty name x, the first dictionary_encode(x) since creation
\* or the last clear returns x itself and registers x; every later
\* dictionary_encode(x) returns exactly "CODE_<n>", n the code x received at
\* its first call, and changes no state.
C2_FirstLiteralThenCode ==
    [][(op' = "dictionary_encode" /\ Len(args'[1]) > 0) =>
          /\ exc' = ""
          /\ IF args'[1] \notin DOMAIN hist_first_code
             THEN /\ ret' = args'[1]
                  /\ args'[1] \in DOMAIN dictionary'
             ELSE /\ ret' = CodeToken(hist_first_code[args'[1]])
                  /\ UNCHANGED engine]_vars

\* "A" was registered first, another name after it, and a later encode of
\* "A" answered "CODE_1"
C2_Witness ==
    /\ op = "dictionary_encode"
    /\ args = <<NameA>>
    /\ ret = CodeToken(1)
    /\ next_code >= 3

\* C3: codes are assigned 1, 2, 3, ... in order of first sighting and the
\* dictionary is append-only: no call but clear removes a name or changes
\* the code of a registered name, a newly registered name gets the code
\* len(dictionary) + 1, the set of assigned codes is exactly
\* 1..len(dictionary), and next_code = len(dictionary) + 1.
C3_SequentialAppendOnly ==
    /\ [](/\ {dictionary[n] : n \in DOMAIN dictionary}
                = 1..Cardinality(DOMAIN dictionary)
          /\ next_code = Cardinality(DOMAIN dictionary) + 1)
    /\ [][op' # "clear" =>
             /\ \A n \in DOMAIN dictionary :
                    n \in DOMAIN dictionary' /\ dictionary'[n] = dictionary[n]
             /\ \A n \in (DOMAIN dictionary') \ (DOMAIN dictionary) :
                    dictionary'[n] = Cardinality(DOMAIN dictionary) + 1]_vars

\* "A", sighted second, has received code 2 on an engine that also tracks
\* counts
C3_Witness ==
    /\ op = "dictionary_encode"
    /\ NameA \in DOMAIN dictionary
    /\ dictionary[NameA] = 2
    /\ NameA \in DOMAIN previous_beneficiaries
    /\ next_code = 3

\* C4: for every non-empty name x already registered (names that read
\* "CODE_<k>" included), dictionary_encode(x) leaves the store as it is and
\* dictionary_decode of what it returns is x.
C4_RepeatedRoundTrip ==
    \A x \in DOMAIN dictionary :
        LET e == dictionary_encode(Self, x)
            d == dictionary_decode(e.self, e.ret)
        IN  /\ e.exc = "" /\ d.exc = ""
            /\ e.ret = CodeToken(dictionary[x])
            /\ d.ret = x

\* the names "CODE_1" and "CODE_2" are registered under each other's code
\* and the token "CODE_2" has been decoded to the name "CODE_1"
C4_Witness ==
    /\ op = "dictionary_decode"
    /\ args = <<CodeToken(2)>>
    /\ ret = CodeToken(1)
    /\ CodeToken(1) \in DOMAIN dictionary
    /\ dictionary[CodeToken(1)] = 2
    /\ CodeToken(2) \in DOMAIN dictionary
    /\ dictionary[CodeToken(2)] = 1

\* C5: when dictionary_encode has returned its argument as literal text (a
\* first occurrence), dictionary_decode of that text in the store it left
\* returns the same text.
C5_FirstOccurrenceRoundTrip ==
    [][(/\ op = "dictionary_encode"
        /\ ret = args[1]
        /\ op' = "dictionary_decode"
        /\ args' = <<ret>>) => ret' = args[1]]_vars

\* the text after the "CODE_" prefix of a token
AfterPrefix(t) == SubSeq(t, Len(CODE_) + 1, Len(t))

\* a decimal integer: one digit or more and nothing else
IsDecimal(s) == Len(s) > 0 /\ \A i \in 1..Len(s) : IsDigit(s[i])

\* exactly "CODE_" followed by one decimal integer
IsCodeToken(t) == StartsWith(t, CODE_) /\ IsDecimal(AfterPrefix(t))

\* C6: dictionary_decode never fails and never changes state; it returns the
\* token unchanged for the empty string, for "CODE_" followed by non-numeric
\* or empty text and for "CODE_<n>" with n not in reverse_dictionary, and
\* returns reverse_dictionary[n] for "CODE_<n>" with n registered.
C6_DecodeTolerant ==
    /\ [][op' = "dictionary_decode" => UNCHANGED engine]_vars
    /\ [](op = "dictionary_decode" =>
            /\ exc = ""
            /\ Len(args[1]) = 0 => ret = args[1]
            /\ (StartsWith(args[1], CODE_) /\ ~IsDecimal(AfterPrefix(args[1])))
                   => ret = args[1]
            /\ IsCodeToken(args[1]) =>
                   LET n == DigitsValue(AfterPrefix(args[1]), 0)
                   IN  IF n \in DOMAIN reverse_dictionary
                       THEN ret = reverse_dictionary[n]
                       ELSE ret = args[1])

\* C7: dictionary_decode returns unchanged every token that is not exactly
\* "CODE_" followed by one decimal integer, "CODE_1_x" and "CODE_1_2"
\* included even when code 1 is registered.
C7_OnlyCodeTokensDecoded ==
    (op = "dictionary_decode" /\ ~IsCodeToken(args[1])) => ret = args[1]

\* C8: delta_encode(name, c) returns (None, c) when name has no recorded
\* count and (c - p, c) otherwise, p the count of the most recent previous
\* delta_encode for name; afterwards previous_beneficiaries[name] = c and the
\* counts of all other names are as before.
C8_DeltaEncode ==
    [][op' = "delta_encode" =>
          LET name == args'[1]
              c == args'[2]
          IN  /\ exc' = ""
              /\ IF name \notin DOMAIN previous_beneficiaries
                 THEN name \notin DOMAIN hist_last_count /\ ret' = <<None, c>>
                 ELSE ret' = <<Some(c - hist_last_count[name]), c>>
              /\ name \in DOMAIN previous_beneficiaries'
              /\ previous_beneficiaries'[name] = c
              /\ (DOMAIN previous_beneficiaries') \ {name}
                     = (DOMAIN previous_beneficiaries) \ {name}
              /\ \A m \in (DOMAIN previous_beneficiaries) \ {name} :
                     previous_beneficiaries'[m] = previous_beneficiaries[m]
              /\ <<dictionary, reverse_dictionary, next_code>>'
                     = <<dictionary, reverse_dictionary, next_code>>]_vars

\* a decline has been encoded for "A" while "B" keeps its own count
C8_Witness ==
    /\ op = "delta_encode"
    /\ args[1] = NameA
    /\ ret[1] # None
    /\ ret[1][1] < 0
    /\ NameB \in DOMAIN previous_beneficiaries
    /\ previous_beneficiaries[NameB] # args[2]

\* C9: delta_decode, dictionary_decode and get_compression_stats leave
\* dictionary, reverse_dictionary, next_code and previous_beneficiaries
\* unchanged, so previous_beneficiaries always holds, for each name, the
\* count given to the most recent delta_encode for that name.
C9_DecodeReadOnly ==
    /\ [][op' \in {"delta_decode", "dictionary_decode", "get_compression_stats"}
             => UNCHANGED engine]_vars
    /\ [](previous_beneficiaries = hist_last_count)

\* a delta has been decoded to a count other than the recorded one, which
\* is still the count of the last delta_encode
C9_Witness ==
    /\ op = "delta_decode"
    /\ args[2] # None
    /\ args[1] \in DOMAIN previous_beneficiaries
    /\ ret # previous_beneficiaries[args[1]]
    /\ previous_beneficiaries[args[1]] = hist_last_count[args[1]]

C11_DeltaRoundTripBeforeEncode ==
    \A name \in DOMAIN previous_beneficiaries : \A c \in Counts :
        LET p == previous_beneficiaries[name]
            e == delta_encode(Self, name, c)
            d == delta_decode(Self, name, Some(c - p), c)
        IN  /\ e.ret = <<Some(c - p), c>>
            /\ d.exc = ""
            /\ d.ret = c

\* a non-zero delta c - p has been decoded, against the store that still
\* holds p, to the reference c
C11_Witness ==
    /\ op = "delta_decode"
    /\ args[1] \in DOMAIN previous_beneficiaries
    /\ args[2] = Some(args[3] - previous_beneficiaries[args[1]])
    /\ args[2] # Some(0)
    /\ ret = args[3]


\* C12: after compress_program_data(name, c1) and then
\* compress_program_data(name, c2) has returned (token, delta), the call
\* decompress_program_data(token, delta, c2, name) on the same global engine
\* returns (name, c2).
C12_CompressDecompressRoundTrip ==
    [][(/\ op = "compress_program_data"
        /\ ret[2] # None
        /\ op' = "decompress_program_data"
        /\ args' = <<ret[1], ret[2], args[2], args[1]>>)
       => ret' = <<args[1], args[2]>>]_vars


\* C13: after clear the engine equals a newly constructed one (the three
\* dicts empty, next_code = 1), so every later call returns what it returns
\* on a new engine: right after clear each method gives the result and the
\* engine it gives on NewEngine, a name seen before is returned unchanged
\* and gets code 1 again, and a name tracked before yields delta None.
C13_ClearIsFresh ==
    /\ [](op = "clear" =>
            /\ Self = NewEngine
            /\ ret = None /\ exc = "")
    /\ [][op = "clear" =>
             /\ op' = "dictionary_encode" =>
                    /\ <<Self', ret'>> =
                         <<dictionary_encode(NewEngine, args'[1]).self,
                           dictionary_encode(NewEngine, args'[1]).ret>>
                    /\ Len(args'[1]) > 0 =>
                           ret' = args'[1] /\ dictionary'[args'[1]] = 1
             /\ op' = "delta_encode" =>
                    /\ Self' = delta_encode(NewEngine, args'[1], args'[2]).self
                    /\ ret' = <<None, args'[2]>>
             /\ op' = "dictionary_decode" =>
                    ret' = dictionary_decode(NewEngine, args'[1]).ret
             /\ op' = "delta_decode" =>
                    ret' = delta_decode(NewEngine, args'[1], args'[2], args'[3]).ret
             /\ op' = "get_compression_stats" =>
                    ret' = get_compression_stats(NewEngine).ret]_vars

\* clear has just emptied an engine that held two names and a count
C13_Witness ==
    /\ op = "clear"
    /\ hist_dropped[1] >= 2
    /\ hist_dropped[2] >= 1
    /\ Self = NewEngine


----------------------------------------------------------------------------
(* Claims about request threads on the global engine.                      *)

\* C14: when two request threads run dictionary_encode for the same new
\* name with their steps interleaved, the name is not allocated two codes:
\* whenever no thread is inside dictionary_encode, reverse_dictionary holds
\* at most one code for each name and the two dicts are mutual inverses.
\* Stated for the runs in which every call so far was for the one name NameA.
C14_OneCodePerName ==
    (/\ \A t \in Threads : thread[t].pc \notin EncodePcs
     /\ DOMAIN dictionary = {NameA}) =>
        /\ Cardinality({c \in DOMAIN reverse_dictionary :
                           reverse_dictionary[c] = NameA}) = 1
        /\ \A n \in DOMAIN dictionary :
               /\ dictionary[n] \in DOMAIN reverse_dictionary
               /\ reverse_dictionary[dictionary[n]] = n
        /\ \A c \in DOMAIN reverse_dictionary :
               /\ reverse_dictionary[c] \in DOMAIN dictionary
               /\ dictionary[reverse_dictionary[c]] = c


----------------------------------------------------------------------------
(* Claims about the statistics.                                            *)

\* C15: get_compression_stats reports dictionary_entries = the number of
\* distinct non-empty names passed to dictionary_encode since the last
\* clear, programs_tracked = the number of distinct names passed to
\* delta_encode since the last clear, and compression_ratio = 1.0 when no
\* name is registered, otherwise (sum of the lengths of the registered
\* names) / (8 * dictionary_entries) rounded to 2 decimals: the hundredth r
\* reported is within half a hundredth of the quotient.
C15_Stats ==
    op = "get_compression_stats" =>
        LET names == DOMAIN hist_first_code
            n == Cardinality(names)
            total == SumLen(names)
            r == ret.compression_ratio
        IN  /\ exc = ""
            /\ ret.dictionary_entries = n
            /\ ret.programs_tracked = Cardinality(DOMAIN hist_last_count)
            /\ n = 0 => r = 100
            /\ n > 0 =>
                   /\ r \in Nat
                   /\ 2 * (8 * n * r - 100 * total) <= 8 * n
                   /\ 2 * (100 * total - 8 * n * r) <= 8 * n

\* the statistics of two names of lengths 1 and 6 (7/16 = 0.4375 -> 0.44)
\* and two tracked programs
C15_Witness ==
    /\ op = "get_compression_stats"
    /\ DOMAIN hist_first_code = {NameA, CodeToken(1)}
    /\ DOMAIN hist_last_count = {NameA, NameB}
    /\ ret.dictionary_entries = 2
    /\ ret.programs_tracked = 2
    /\ ret.compression_ratio = 44


----------------------------------------------------------------------------
(* Claims about the metrics.                                               *)

\* C16: calculate_composite_score returns a value in [0, 100] for every
\* outcome improvement, cost per beneficiary and growth rate (present or
\* None), inputs far outside the normalization ranges and negative ones
\* included, under the default weights and ranges.
C16_CompositeInRange ==
    op = "calculate_composite_score" =>
        /\ exc = ""
        /\ RLe(R(0), ret)
        /\ RLe(ret, R(100))

\* the score of inputs far outside the three ranges, one of them negative,
\* is the upper end of the range
C16_Witness ==
    /\ op = "calculate_composite_score"
    /\ args = <<R(Far), R(-Far), Some(R(Far))>>
    /\ ret = R(100)

\* C17: calculate_composite_score = round(0.40 * N_o + 0.35 * (100 - N_c)
\* + 0.25 * N_g, 2) with N_o = normalize(outcome, 0, 100), N_c =
\* normalize(cost, 0, 1000), N_g = normalize(growth, -1, 2) for a growth
\* rate that is present and 50 for None: the result is a number of
\* hundredths within half a hundredth of the weighted sum.  So a missing
\* growth rate scores as growth_rate = 0.5 does and not as growth_rate = 0
\* does.
C17_CompositeFormula ==
    op = "calculate_composite_score" =>
        LET N_o == normalize_value(args[1], R(0), R(100)).ret
            N_c == normalize_value(args[2], R(0), R(1000)).ret
            N_g == IF args[3] = None THEN R(50)
                   ELSE normalize_value(args[3][1], R(-1), R(2)).ret
            sum == RAdd(RAdd(RMul(Rat(40, 100), N_o),
                             RMul(Rat(35, 100), RSub(R(100), N_c))),
                        RMul(Rat(25, 100), N_g))
        IN  /\ exc = ""
            /\ 100 % ret[2] = 0
            /\ RLe(RSub(ret, sum), Rat(1, 200))
            /\ RLe(RSub(sum, ret), Rat(1, 200))
            /\ args[3] = None =>
                   /\ ret = calculate_composite_score(
                                args[1], args[2], Some(Rat(1, 2))).ret
                   /\ ret # calculate_composite_score(
                                args[1], args[2], Some(R(0))).ret

\* outcome 50, cost 250, no growth rate: 0.40 * 50 + 0.35 * 75 + 0.25 * 50
C17_Witness ==
    /\ op = "calculate_composite_score"
    /\ args = <<R(50), R(250), None>>
    /\ ret = Rat(5875, 100)

\* C18: normalize_value(v, lo, hi) is in [0, 100] for every v and every
\* pair of bounds; for lo < hi it is 100 * (v - lo) / (hi - lo) inside the
\* range, 0 at v = lo and below, 100 at v = hi and above.
C18_NormalizeClamped ==
    op = "normalize_value" =>
        LET v == args[1]
            lo == args[2]
            hi == args[3]
        IN  /\ exc = ""
            /\ RLe(R(0), ret)
            /\ RLe(ret, R(100))
            /\ RLt(lo, hi) =>
                   /\ (RLe(lo, v) /\ RLe(v, hi)) =>
                          ret = Rat(100 * (v[1] * lo[2] - lo[1] * v[2]) * hi[2],
                                    (hi[1] * lo[2] - lo[1] * hi[2]) * v[2])
                   /\ RLe(v, lo) => ret = R(0)
                   /\ RLe(hi, v) => ret = R(100)

\* a value a third of the way up the range
C18_Witness ==
    /\ op = "normalize_value"
    /\ args = <<R(1), R(0), R(3)>>
    /\ ret = Rat(100, 3)

\* C19: normalize_value(v, a, a) returns 50 for every v and every a, and
\* raises no ZeroDivisionError.
C19_EqualBounds ==
    (op = "normalize_value" /\ args[2] = args[3]) =>
        /\ ret = R(50)
        /\ exc = ""

\* equal bounds and a value far from them
C19_Witness ==
    /\ op = "normalize_value"
    /\ args = <<R(Far), R(2), R(2)>>
    /\ ret = R(50)
    /\ exc = ""

\* C20, as stated: normalize_value is non-decreasing in its value for every
\* pair of bounds the function accepts (it accepts every pair): for every
\* v1 <= v2, normalize_value(v1, lo, hi) <= normalize_value(v2, lo, hi).
C20_MonotonicAnyBounds ==
    op = "normalize_value" =>
        \A v2 \in NormValues :
            RLe(args[1], v2) =>
                RLe(ret, normalize_value(v2, args[2], args[3]).ret)

\* C20, amended: normalize_value is non-decreasing in its value for every
\* pair of bounds with min_val <= max_val.
C20_MonotonicOrderedBounds ==
    (op = "normalize_value" /\ RLe(args[2], args[3])) =>
        \A v2 \in NormValues :
            RLe(args[1], v2) =>
                RLe(ret, normalize_value(v2, args[2], args[3]).ret)

\* a value inside ordered bounds, with a larger value that scores more
C20_Witness ==
    /\ op = "normalize_value"
    /\ args = <<R(1), R(0), R(2)>>
    /\ ret = R(50)
    /\ \E v2 \in NormValues :
           /\ RLt(args[1], v2)
           /\ RLt(ret, normalize_value(v2, args[2], args[3]).ret)


\* C21, as stated: calculate_growth_rate returns None exactly when previous
\* is None or 0 and raises nothing; otherwise it returns (current -
\* previous) / previous rounded to 4 decimals, which for previous > 0 is
\* positive iff current > previous, negative iff current < previous and 0
\* iff current = previous.
C21_GrowthRateSignExact ==
    op = "calculate_growth_rate" =>
        LET current == args[1]
            previous == args[2]
        IN  /\ exc = ""
            /\ (ret = None) <=> (previous = None \/ previous = Some(0))
            /\ ret # None =>
                   LET growth == Rat(current - previous[1], previous[1])
                   IN  /\ 10000 % ret[1][2] = 0
                       /\ RLe(RSub(ret[1], growth), Rat(1, 20000))
                       /\ RLe(RSub(growth, ret[1]), Rat(1, 20000))
            /\ (previous # None /\ previous[1] > 0) =>
                   /\ RLt(R(0), ret[1]) <=> current > previous[1]
                   /\ RLt(ret[1], R(0)) <=> current < previous[1]
                   /\ ret[1] = R(0) <=> current = previous[1]

\* C21, amended: as above, but for previous > 0 the rounded rate is 0 also
\* for a change of less than half a ten-thousandth of previous: a positive
\* rate implies current > previous, a negative one current < previous,
\* current = previous gives 0, and the rate never has the opposite sign of
\* current - previous.
C21_GrowthRateSign ==
    op = "calculate_growth_rate" =>
        LET current == args[1]
            previous == args[2]
        IN  /\ exc = ""
            /\ (ret = None) <=> (previous = None \/ previous = Some(0))
            /\ ret # None =>
                   LET growth == Rat(current - previous[1], previous[1])
                   IN  /\ 10000 % ret[1][2] = 0
                       /\ RLe(RSub(ret[1], growth), Rat(1, 20000))
                       /\ RLe(RSub(growth, ret[1]), Rat(1, 20000))
            /\ (previous # None /\ previous[1] > 0) =>
                   /\ RLt(R(0), ret[1]) => current > previous[1]
                   /\ RLt(ret[1], R(0)) => current < previous[1]
                   /\ current = previous[1] => ret[1] = R(0)
                   /\ current > previous[1] => RLe(R(0), ret[1])
                   /\ current < previous[1] => RLe(ret[1], R(0))

\* one more beneficiary than the 30000 before: the rate rounds to 0
C21_Witness ==
    /\ op = "calculate_growth_rate"
    /\ args = <<Big + 1, Some(Big)>>
    /\ ret = Some(R(0))

\* C22: calculate_cost_per_beneficiary(cost, n) returns 0 for every n <= 0
\* and raises nothing; for n > 0 it returns cost / n rounded to 2 decimals.
C22_CostPerBeneficiary ==
    op = "calculate_cost_per_beneficiary" =>
        LET cost == args[1]
            n == args[2]
        IN  /\ exc = ""
            /\ n <= 0 => ret = R(0)
            /\ n > 0 =>
                   LET cost_per == Rat(cost[1], cost[2] * n)
                   IN  /\ 100 % ret[2] = 0
                       /\ RLe(RSub(ret, cost_per), Rat(1, 200))
                       /\ RLe(RSub(cost_per, ret), Rat(1, 200))

\* a cost of 10000 over 3 beneficiaries is 3333.33
C22_Witness ==
    /\ op = "calculate_cost_per_beneficiary"
    /\ args = <<R(10000), 3>>
    /\ ret = Rat(333333, 100)


\* C23, as stated: compute_program_metrics(program, prev) returns the
\* record's id and name, outcome_improvement = post_outcome_score -
\* pre_outcome_score, cost_per_beneficiary = calculate_cost_per_beneficiary(
\* cost, beneficiaries), growth_rate = calculate_growth_rate(beneficiaries,
\* prev) (None without prev) and composite_impact_score =
\* calculate_composite_score of those three values; the record is not
\* modified.
C23_ProgramMetricsExact ==
    op = "compute_program_metrics" =>
        LET program == args[1]
            previous == args[2]
        IN  /\ exc = ""
            /\ MetricsProgramId(ret) = ProgramIdOf(program)
            /\ MetricsProgramName(ret) = ProgramNameOf(program)
            /\ OutcomeImprovementOf(ret) =
                   RSub(PostOutcomeScoreOf(program), PreOutcomeScoreOf(program))
            /\ CostPerBeneficiaryOf(ret) =
                   calculate_cost_per_beneficiary(CostOf(program),
                                                  BeneficiariesOf(program)).ret
            /\ GrowthRateOf(ret) =
                   calculate_growth_rate(BeneficiariesOf(program), previous).ret
            /\ previous = None => GrowthRateOf(ret) = None
            /\ CompositeImpactScoreOf(ret) =
                   calculate_composite_score(OutcomeImprovementOf(ret),
                                             CostPerBeneficiaryOf(ret),
                                             GrowthRateOf(ret)).ret
            /\ compute_program_metrics(program, previous).program = program

\* C23, amended: the same with outcome_improvement = post_outcome_score -
\* pre_outcome_score rounded to 2 decimals.
C23_ProgramMetrics ==
    op = "compute_program_metrics" =>
        LET program == args[1]
            previous == args[2]
            improvement == RSub(PostOutcomeScoreOf(program),
                                PreOutcomeScoreOf(program))
        IN  /\ exc = ""
            /\ MetricsProgramId(ret) = ProgramIdOf(program)
            /\ MetricsProgramName(ret) = ProgramNameOf(program)
            /\ 100 % OutcomeImprovementOf(ret)[2] = 0
            /\ RLe(RSub(OutcomeImprovementOf(ret), improvement), Rat(1, 200))
            /\ RLe(RSub(improvement, OutcomeImprovementOf(ret)), Rat(1, 200))
            /\ CostPerBeneficiaryOf(ret) =
                   calculate_cost_per_beneficiary(CostOf(program),
                                                  BeneficiariesOf(program)).ret
            /\ GrowthRateOf(ret) =
                   calculate_growth_rate(BeneficiariesOf(program), previous).ret
            /\ previous = None => GrowthRateOf(ret) = None
            /\ CompositeImpactScoreOf(ret) =
                   calculate_composite_score(OutcomeImprovementOf(ret),
                                             CostPerBeneficiaryOf(ret),
                                             GrowthRateOf(ret)).ret
            /\ compute_program_metrics(program, previous).program = program

\* scores 40 and 70.125, 200 beneficiaries after 100: the improvement is
\* reported as 30.12 and the growth as 1.0
C23_Witness ==
    /\ op = "compute_program_metrics"
    /\ PreOutcomeScoreOf(args[1]) = R(40)
    /\ PostOutcomeScoreOf(args[1]) = Rat(561, 8)
    /\ BeneficiariesOf(args[1]) = 200
    /\ args[2] = Some(100)
    /\ OutcomeImprovementOf(ret) = Rat(3012, 100)
    /\ GrowthRateOf(ret) = Some(R(1))


----------------------------------------------------------------------------
(* Claims about AnalyticsEngine, under SpecAnalytics.                      *)

\* the place of the row with the given id in the result of the query
QueryPosition(id) == CHOOSE k \in 1..Len(db) : ProgramIdOf(db[k]) = id

\* C24: get_ranked_programs returns its entries by composite_impact_score
\* descending, each entry's score being at least the next entry's, and
\* entries of equal score stand in the order in which the query returned
\* their programs.
C24_RankedOrder ==
    op = "get_ranked_programs" =>
        \A i \in 1..Len(ret) : \A j \in 1..Len(ret) :
            i < j =>
                /\ RLe(CompositeImpactScoreOf(ret[j]),
                       CompositeImpactScoreOf(ret[i]))
                /\ CompositeImpactScoreOf(ret[j]) = CompositeImpactScoreOf(ret[i])
                       => QueryPosition(MetricsProgramId(ret[i]))
                              < QueryPosition(MetricsProgramId(ret[j]))

\* three programs ranked, the first two of equal score and returned by the
\* query against the order of their ids, the third of a smaller score
C24_Witness ==
    /\ op = "get_ranked_programs"
    /\ Len(ret) = 3
    /\ CompositeImpactScoreOf(ret[1]) = CompositeImpactScoreOf(ret[2])
    /\ MetricsProgramId(ret[1]) > MetricsProgramId(ret[2])
    /\ RLt(CompositeImpactScoreOf(ret[3]), CompositeImpactScoreOf(ret[2]))


\* the ids of the programs in a list of metrics
RankedIds(ranked) == {MetricsProgramId(ranked[i]) : i \in 1..Len(ranked)}

\* the composite score that the ranking computes for the row at place k
RankedScoreOfRow(k) ==
    CompositeImpactScoreOf(compute_program_metrics(db[k], None).ret)

\* C25: for every limit >= 0, get_ranked_programs(db, limit) returns exactly
\* the first min(limit, n) entries of the full descending ranking of the n
\* stored programs, and no returned program has a lower score than a
\* program that was left out.
C25_RankedLimit ==
    (op = "get_ranked_programs" /\ args[1] >= 0) =>
        LET n == Len(db)
            full == get_ranked_programs(db, n).ret
            top == IF args[1] < n THEN args[1] ELSE n
        IN  /\ Len(full) = n
            /\ RankedIds(full) = RowIds(db)
            /\ ret = SubSeq(full, 1, top)
            /\ Len(ret) = top
            /\ \A i \in 1..Len(ret) : \A k \in 1..n :
                   ProgramIdOf(db[k]) \notin RankedIds(ret) =>
                       RLe(RankedScoreOfRow(k), CompositeImpactScoreOf(ret[i]))

\* two of three programs are returned and the one left out, of a strictly
\* lower score, is the first row of the query
C25_Witness ==
    /\ op = "get_ranked_programs"
    /\ args = <<2>>
    /\ Len(db) = 3
    /\ Len(ret) = 2
    /\ ProgramIdOf(db[1]) \notin RankedIds(ret)
    /\ RLt(RankedScoreOfRow(1), CompositeImpactScoreOf(ret[2]))


\* the places of the rows stored before the row at place k under its name
EarlierSameName(k) ==
    {e \in 1..Len(db) :
         /\ ProgramNameOf(db[e]) = ProgramNameOf(db[k])
         /\ ProgramIdOf(db[e]) < ProgramIdOf(db[k])}

\* the latest of them
LatestEarlier(k) ==
    CHOOSE e \in EarlierSameName(k) :
        \A f \in EarlierSameName(k) : ProgramIdOf(db[f]) <= ProgramIdOf(db[e])

\* C26: get_program_by_id_with_metrics returns None when no record has the
\* given id; otherwise the metrics are those of that record with growth
\* computed against the beneficiaries of the record of the same
\* program_name with the largest smaller id, and growth_rate is None exactly
\* when there is no such record or its beneficiaries is 0, whatever other
\* records are stored.
C26_ByIdPrevious ==
    op = "get_program_by_id_with_metrics" =>
        /\ exc = ""
        /\ args[1] \notin RowIds(db) => ret = None
        /\ \A k \in 1..Len(db) :
               ProgramIdOf(db[k]) = args[1] =>
                   LET previous ==
                           IF EarlierSameName(k) = {} THEN None
                           ELSE Some(BeneficiariesOf(db[LatestEarlier(k)]))
                   IN  /\ ret # None
                       /\ MetricsProgramId(ret) = args[1]
                       /\ MetricsProgramName(ret) = ProgramNameOf(db[k])
                       /\ GrowthRateOf(ret) =
                              calculate_growth_rate(BeneficiariesOf(db[k]),
                                                    previous).ret
                       /\ GrowthRateOf(ret) = None
                              <=> (previous = None \/ previous = Some(0))
                       /\ previous \notin {None, Some(0)} =>
                              /\ 10000 % GrowthRateOf(ret)[1][2] = 0
                              /\ RLe(RSub(GrowthRateOf(ret)[1],
                                          Rat(BeneficiariesOf(db[k]) - previous[1],
                                              previous[1])),
                                     Rat(1, 20000))
                              /\ RLe(RSub(Rat(BeneficiariesOf(db[k]) - previous[1],
                                              previous[1]),
                                          GrowthRateOf(ret)[1]),
                                     Rat(1, 20000))
                       /\ ret = compute_program_metrics(db[k], previous).ret

\* the record asked for has an earlier record of its name with 100
\* beneficiaries and a later one, which the query returns first; its growth
\* from 100 to 200 is 1.0
C26_Witness ==
    /\ op = "get_program_by_id_with_metrics"
    /\ args = <<2>>
    /\ Len(db) = 3
    /\ db[1] = ProgramDB(3, NameA, 0, R(10000), R(40), R(70))
    /\ \E k \in 2..3 : db[k] = ProgramDB(1, NameA, 100, R(10000), R(40), R(70))
    /\ \E k \in 2..3 : db[k] = ProgramDB(2, NameA, 200, R(10000), R(40), R(70))
    /\ ret # None
    /\ GrowthRateOf(ret) = Some(R(1))


\* C30 (refuted by the code): a program's composite_impact_score is the
\* same wherever it is reported; every entry of the get_ranked_programs list
\* carries the score that get_program_by_id_with_metrics returns for that
\* program, also when an earlier record of the same program_name exists.
C30_SameScoreEverywhere ==
    op = "get_ranked_programs" =>
        \A i \in 1..Len(ret) :
            CompositeImpactScoreOf(ret[i]) =
                CompositeImpactScoreOf(
                    get_program_by_id_with_metrics(
                        db, MetricsProgramId(ret[i])).ret)

----------------------------------------------------------------------------
(* Claims about the compression ratio, under SpecRatio.                    *)

\* C27 as stated: whenever at least one name is registered,
\* get_compression_stats reports compression_ratio >= 1.0.
C27_RatioAtLeastOne ==
    (op = "get_compression_stats" /\ DOMAIN dictionary # {}) =>
        ret.compression_ratio >= 100

\* C27: whenever at least one name is registered, get_compression_stats
\* reports compression_ratio >= 1.0 if the registered names have 8 or more
\* characters on average, and compression_ratio < 1.0 if they have fewer
\* than 7.96 characters on average.
C27_RatioByAverageLength ==
    (op = "get_compression_stats" /\ DOMAIN dictionary # {}) =>
        LET n == Cardinality(DOMAIN dictionary)
            total == SumLen(DOMAIN dictionary)
        IN  /\ total >= 8 * n => ret.compression_ratio >= 100
            /\ 100 * total < 796 * n => ret.compression_ratio < 100

\* names of 7 and 9 characters give 16/16 = 1.0
C27_Witness ==
    /\ op = "get_compression_stats"
    /\ DOMAIN dictionary = {Program, Program_A}
    /\ ret.compression_ratio = 100


----------------------------------------------------------------------------
(* Claims about the series of deltas, under SpecDeltas.                    *)

\* C28: telescoping of deltas.  For every name and every series of
\* delta_encode calls for it with counts c0, ..., ck, interleaved with calls
\* for other names and with decode calls and without clear, the first call
\* returned the delta None, and c0 plus the sum of the deltas returned since
\* equals ck, which equals previous_beneficiaries[name].
C28_Telescoping ==
    /\ DOMAIN hist_deltas = DOMAIN previous_beneficiaries
    /\ DOMAIN hist_deltas = DOMAIN hist_last_count
    /\ \A name \in DOMAIN hist_deltas :
           /\ hist_deltas[name][2] = None
           /\ hist_deltas[name][1] + hist_deltas[name][3] = hist_last_count[name]
           /\ hist_last_count[name] = previous_beneficiaries[name]

\* after a delta_decode, the series of "A" began at 2 and has come down to 1
\* by deltas that sum to -1, while the series of "B" began at 0 and stands
\* at 2
C28_Witness ==
    /\ op = "delta_decode"
    /\ NameA \in DOMAIN hist_deltas
    /\ NameB \in DOMAIN hist_deltas
    /\ hist_deltas[NameA] = <<2, None, -1>>
    /\ previous_beneficiaries[NameA] = 1
    /\ hist_deltas[NameB] = <<0, None, 2>>
    /\ previous_beneficiaries[NameB] = 2


----------------------------------------------------------------------------
(* Claims about two threads registering different names, under             *)
(* SpecTwoNames.                                                           *)

\* C29 (refuted by the code): when two request threads run
\* compress_program_data concurrently for two different new names, the two
\* names never receive the same code, and once both calls have returned no
\* code is skipped or overwritten in reverse_dictionary and
\* dictionary_decode of either name's "CODE_<n>" token returns that name.
C29_DistinctCodes ==
    /\ (NameA \in DOMAIN dictionary /\ NameB \in DOMAIN dictionary)
           => dictionary[NameA] # dictionary[NameB]
    /\ (\A t \in Threads : At(t, "idle"))
           /\ DOMAIN previous_beneficiaries = {NameA, NameB}
           => /\ DOMAIN reverse_dictionary = 1..2
              /\ next_code = 3
              /\ \A name \in {NameA, NameB} :
                     LET r == dictionary_decode(Self, CodeToken(dictionary[name]))
                     IN  r.exc = "" /\ r.ret = name

====
